---- MODULE Spec2Model ----
(***************************************************************************)
(* The chat turn of the RAG chat backend (src/app/api/chat.py), its        *)
(* retrieval and generation stages (src/app/services/chat_flow.py) and the *)
(* session state store (src/app/services/chat_checkpointer.py), together   *)
(* with the tables they read and write.                                    *)
(*                                                                         *)
(* A request handler is a coroutine: between two awaited database or       *)
(* provider calls other requests may run.  Each turn is therefore a        *)
(* process with a program counter; one action covers the code between two  *)
(* points at which the turn's effects become visible to other requests     *)
(* (a commit) or at which it reads shared tables.  Every request has its   *)
(* own AsyncSession (src/app/db/session.py, get_db), so the tables below   *)
(* hold committed rows only and a turn's uncommitted work is local to it.  *)
(***************************************************************************)
EXTENDS Naturals, Integers, Sequences, FiniteSets, TLC

\* ---------------------------------------------------------------- bounds
MaxRequests == 2         \* chat turns accepted in one behaviour of Spec
MaxOverlapRequests == 3  \* chat turns accepted in one behaviour of OverlapSpec
MaxDocs == 1             \* documents uploaded in one behaviour
MaxRetrievalRequests == 2  \* chat turns accepted in one behaviour of RetrievalSpec
MaxNameLen == 2          \* parts of a model name given to the constructors

\* ------------------------------------------------------------- universes
Users == {"u1", "u2"}
Turns == {1, 2}                    \* request handlers that can run at once
ValidProviders == {"google", "openai"}
Providers == ValidProviders \cup {"azure"}
NoPrefs == "none"                  \* user.model_preferences is None
NoSession == 0                     \* ChatInput.session_id is None
UnknownSession == -1               \* a session id no uuid4() call returned

None == <<>>                       \* Optional value: None
Some(x) == <<x>>                   \* Optional value: present

Msg(n) == "q" \o ToString(n)       \* the message text of request n
Ans(n) == "a" \o ToString(n)       \* the provider's reply to request n

ADVISORY == "I noticed you changed your AI provider. Please re-upload your documents to create new embeddings compatible with the current provider."
APOLOGY == "I apologize, but I encountered an error processing your request."

\* Width of the vectors the user's embedding function produces.
EmbeddingDim(provider) == IF provider = "openai" THEN 1536 ELSE 768

VARIABLES
  user_model_preferences,  \* user -> provider name, or NoPrefs
  user_api_keys,           \* user -> providers the user stored a key for
  langchain_pg_embedding,  \* the vector index: set of rows
  documents,               \* document id -> owning user (table documents)
  factory,                 \* the model constructors' call: inputs and results
  chat_sessions,           \* session id -> owning user (table chat_sessions)
  chat_messages,           \* session id -> sequence of [role, content]
  chat_states,             \* session id -> ChatState snapshot (table chat_states)
  pc,                      \* turn -> position of the handler
  req,                     \* turn -> the request: user, session_id, message, n
  state,                   \* turn -> the handler's working ChatState
  path,                    \* turn -> branch taken in retrieval / generation
  llm_calls,               \* turn -> number of llm.ainvoke calls made
  loaded,                  \* turn -> what checkpointer.load returned (history)
  response,                \* turn -> what the endpoint returned
  nextRequest, nextSession, nextDoc

vars == <<user_model_preferences, user_api_keys, langchain_pg_embedding,
          documents, factory, chat_sessions, chat_messages, chat_states, pc, req, state, path,
          llm_calls, loaded, response, nextRequest, nextSession, nextDoc>>

tables == <<chat_sessions, chat_messages, chat_states, langchain_pg_embedding>>
\* What a chat turn reads but never writes.
config == <<user_model_preferences, user_api_keys, documents, factory>>

\* ------------------------------------------------------------ pure parts

\* ChatFlow.get_initial_state
get_initial_state(session_id, user_id) ==
  [current_input |-> "",
   internal_history |-> <<>>,
   current_output |-> None,
   current_context |-> None,
   session_id |-> session_id,
   retriever_params |-> [k |-> 4, score_threshold |-> "0.5"],
   conversation_count |-> 0,
   user_id |-> user_id]

\* ChatFlow._serialize_message applied to HumanMessage / AIMessage
HumanEntry(content) == [type |-> "HumanMessage", content |-> content]
AIEntry(content) == [type |-> "AIMessage", content |-> content]

\* PostgresChatCheckpointer.load: the stored snapshot, or None
load(session_id) ==
  IF session_id \in DOMAIN chat_states THEN Some(chat_states[session_id]) ELSE None

\* Faulty save: a plain INSERT that leaves an existing record as it is.
save_InsertOnly(session_id, st) ==
  [s \in DOMAIN chat_states \cup {session_id} |->
     IF s \in DOMAIN chat_states THEN chat_states[s] ELSE st]

\* PostgresChatCheckpointer.save: merge() on the primary key session_id, then
\* commit: the whole snapshot of the eight fields replaces the stored one.
save(session_id, st) ==
  [s \in DOMAIN chat_states \cup {session_id} |->
     IF s = session_id
       THEN [current_input |-> st.current_input,
             internal_history |-> st.internal_history,
             current_output |-> st.current_output,
             current_context |-> st.current_context,
             session_id |-> st.session_id,
             retriever_params |-> st.retriever_params,
             conversation_count |-> st.conversation_count,
             user_id |-> st.user_id]
       ELSE chat_states[s]]

\* db.add(ChatMessage(session_id, role, content)); commit
add_message(session_id, role, content) ==
  [s \in DOMAIN chat_messages \cup {session_id} |->
     IF s = session_id
       THEN (IF s \in DOMAIN chat_messages THEN chat_messages[s] ELSE <<>>)
              \o <<[role |-> role, content |-> content]>>
       ELSE chat_messages[s]]

OK == [status_code |-> 200, detail |-> "ok"]
HTTPException(code, detail) == [status_code |-> code, detail |-> detail]

\* chat(), "Validate user setup", "Validate provider", "Check for API key":
\* the exception raised, or OK.
Validate(u) ==
  IF user_model_preferences[u] = NoPrefs
    THEN HTTPException(400, "Please configure your model preferences first")
  ELSE IF user_model_preferences[u] \notin ValidProviders
    THEN HTTPException(400, "Invalid provider")
  ELSE IF user_model_preferences[u] \notin user_api_keys[u]
    THEN HTTPException(400, "Please add your API key in settings before chatting")
  ELSE OK

\* chat(), the else branch of "Get or create session state": the exception
\* raised for a supplied session_id, or OK.
CheckSession(u, session_id) ==
  IF load(session_id) = None
    THEN HTTPException(404, "Chat session not found")
  ELSE IF chat_states[session_id].user_id # u
    THEN HTTPException(403, "You don't have access to this chat session")
  ELSE OK

\* chat(), the outer "except Exception": rollback, then a 500 carrying str(e).
\* HTTPException is an Exception, so the 400/403/404 raised inside the try
\* block arrive here as well.
OuterExcept(e) == [kind |-> "error", status_code |-> 500, detail |-> e.detail]

\* The rows of the index whose cmetadata user_id is u.
ChunksOf(u) == {r \in langchain_pg_embedding : r.cmetadata.user_id = u}

\* get_vector_store / get_chat_model: what opening the user's embedding or
\* chat model raises with the configuration as it is now, or OK.
ModelError(u) ==
  IF user_model_preferences[u] = NoPrefs
    THEN HTTPException(500, "User model preferences not found")
  ELSE IF user_model_preferences[u] \notin user_api_keys[u]
    THEN HTTPException(400, "No API key found for provider")
  ELSE IF user_model_preferences[u] \notin ValidProviders
    THEN HTTPException(500, "Unsupported provider")
  ELSE OK

\* pgvector raises "different vector dimensions" when the query vector is
\* compared with a stored vector of another width.
DimensionMismatch(u) ==
  \E r \in ChunksOf(u) : r.dim # EmbeddingDim(user_model_preferences[u])

\* The serialized documents of the rows, as _filter_documents stores them.
ContextEntry(r) == [page_content |-> r.document, metadata |-> r.cmetadata]

\* All orderings of a finite set, as sequences without repetition.
RECURSIVE Orderings(_)
Orderings(S) ==
  IF S = {} THEN {<<>>}
  ELSE UNION {{<<x>> \o rest : rest \in Orderings(S \ {x})} : x \in S}

TopK == 5   \* search_kwargs k of the retriever

\* Faulty search: the store is opened without a collection of its own and
\* searches every row of the table.
SearchResults_AnyCollection(u) ==
  UNION {Orderings(S) : S \in {T \in SUBSET langchain_pg_embedding :
            Cardinality(T) = IF Cardinality(langchain_pg_embedding) < TopK
                               THEN Cardinality(langchain_pg_embedding) ELSE TopK}}

\* The rows of the collection named after the user: PGVector is opened with
\* collection_name = str(user.id) and searches that collection only.
CollectionOf(u) == {r \in langchain_pg_embedding : r.collection = u}

\* The results a similarity search may return: up to TopK rows of the user's
\* collection, in the order of their distance to the query (any order here).
\* The "where" entry of search_kwargs is not an argument the search reads.
SearchResults(u) ==
  UNION {Orderings(S) : S \in {T \in SUBSET CollectionOf(u) :
            Cardinality(T) = IF Cardinality(CollectionOf(u)) < TopK
                               THEN Cardinality(CollectionOf(u)) ELSE TopK}}

MapSeq(f(_), s) == [i \in 1..Len(s) |-> f(s[i])]

InFlight(t) == pc[t] \notin {"idle", "done", "failed"}
Finished(t) == pc[t] \in {"done", "failed"}

\* A handler that finished returns its response without another await, so
\* nothing else runs between its last commit (or rollback) and its return.
Ready == \A t \in Turns : ~Finished(t)

\* Handlers are interchangeable: a request is taken by the first idle one.
Free(t) == Ready /\ pc[t] = "idle" /\ \A t2 \in Turns : t2 < t => pc[t2] # "idle"

\* The handler is at the given point and may run.
At(t, label) == Ready /\ pc[t] = label

\* What an idle handler holds.
NoRequest == [user |-> "-", session_id |-> NoSession, message |-> "", n |-> 0]
NoState == get_initial_state(NoSession, "-")
NoPath == [retrieval |-> "-", generation |-> "-"]
NoResponse == [kind |-> "none"]

\* ----------------------------------------------------------------- Init
\* No constructor call is under way.
NoCall == [provider |-> "-", chat_model |-> <<>>, has_key |-> FALSE,
           llm |-> [kind |-> "none", model |-> <<>>, error |-> ""],
           embeddings |-> [kind |-> "none", model |-> <<>>, error |-> ""]]

InitRest ==
  /\ user_api_keys = [u \in Users |-> IF u = "u1" THEN {"openai", "google"} ELSE {"openai"}]
  /\ chat_sessions = <<>>
  /\ chat_messages = <<>>
  /\ chat_states = <<>>
  /\ pc = [t \in Turns |-> "idle"]
  /\ req = [t \in Turns |-> NoRequest]
  /\ state = [t \in Turns |-> NoState]
  /\ path = [t \in Turns |-> NoPath]
  /\ llm_calls = [t \in Turns |-> 0]
  /\ loaded = [t \in Turns |-> None]
  /\ response = [t \in Turns |-> NoResponse]
  /\ nextRequest = 1
  /\ nextSession = 1
  /\ nextDoc = 1
  /\ factory = NoCall

\* The rows aadd_texts inserts for document d of user u: one per chunk, with
\* the metadata process_document gives it and the width of the vectors of
\* the embedding function of the given provider.
DocumentRows(u, d, provider) ==
  {[collection |-> u,
    document |-> "chunk" \o ToString(d),
    cmetadata |-> [document_id |-> d, chunk_index |-> 0, user_id |-> u],
    dim |-> EmbeddingDim(provider)]}

\* The service after two users registered and stored their API keys; u2 has
\* chosen openai and uploaded a first document, u1 has not set preferences.
Init ==
  /\ user_model_preferences = [u \in Users |-> IF u = "u2" THEN "openai" ELSE NoPrefs]
  /\ langchain_pg_embedding = DocumentRows("u2", 0, "openai")
  /\ documents = [d \in {0} |-> "u2"]
  /\ InitRest

\* -------------------------------------------------------------- the turn

\* A request arrives: user u, optional session_id; its message is Msg(n).
Request(u, session_id) ==
  [user |-> u, session_id |-> session_id, message |-> Msg(nextRequest), n |-> nextRequest]

\* The session ids a client can send: those of existing sessions (the
\* sessions listing shows them) and one that names no session.
ClientSessionIds == DOMAIN chat_sessions \cup {UnknownSession}

\* Faulty chat(): the chat_sessions row is committed before the checks run.
ChatReject_CommitsFirst(t, u, session_id) ==
  /\ Free(t)
  /\ LET e == IF Validate(u) # OK THEN Validate(u)
              ELSE IF session_id # NoSession THEN CheckSession(u, session_id)
              ELSE OK
     IN /\ e # OK
        /\ response' = [response EXCEPT ![t] = OuterExcept(e)]
  /\ chat_sessions' = [s \in DOMAIN chat_sessions \cup {nextSession} |->
                         IF s = nextSession THEN u ELSE chat_sessions[s]]
  /\ pc' = [pc EXCEPT ![t] = "failed"]
  /\ path' = [path EXCEPT ![t].retrieval = "rejected"]
  /\ UNCHANGED <<chat_messages, chat_states, langchain_pg_embedding, config, req,
                 state, llm_calls, loaded, nextRequest, nextSession, nextDoc>>

\* chat(): the request is rejected by the set-up checks or by the session
\* checks.  Nothing was added to the db session; the handler rolls back and
\* answers with the error.
ChatReject(t, u, session_id) ==
  /\ Free(t)
  /\ LET e == IF Validate(u) # OK THEN Validate(u)
              ELSE IF session_id # NoSession THEN CheckSession(u, session_id)
              ELSE OK
     IN /\ e # OK
        /\ response' = [response EXCEPT ![t] = OuterExcept(e)]
  /\ pc' = [pc EXCEPT ![t] = "failed"]
  /\ path' = [path EXCEPT ![t].retrieval = "rejected"]
  /\ UNCHANGED <<tables, config, req, state, llm_calls, loaded,
                 nextRequest, nextSession, nextDoc>>

\* Faulty chat(): the new session takes the id of the first session instead
\* of a fresh uuid4().
ChatNewSession_ReusesId(t, u) ==
  /\ Free(t)
  /\ Validate(u) = OK
  /\ chat_sessions' = [s \in DOMAIN chat_sessions \cup {1} |->
                         IF s = 1 THEN u ELSE chat_sessions[s]]
  /\ state' = [state EXCEPT ![t] = get_initial_state(1, u)]
  /\ req' = [req EXCEPT ![t] = Request(u, 1)]
  /\ loaded' = [loaded EXCEPT ![t] = None]
  /\ pc' = [pc EXCEPT ![t] = "resolved"]
  /\ nextRequest' = nextRequest + 1
  /\ nextSession' = nextSession + 1
  /\ UNCHANGED <<chat_messages, chat_states, langchain_pg_embedding, config,
                 path, llm_calls, response, nextDoc>>

\* chat(), no session_id: a fresh id, the initial state, and the chat_sessions
\* row committed at once.
ChatNewSession(t, u) ==
  /\ Free(t)
  /\ Validate(u) = OK
  /\ chat_sessions' = [s \in DOMAIN chat_sessions \cup {nextSession} |->
                         IF s = nextSession THEN u ELSE chat_sessions[s]]
  /\ state' = [state EXCEPT ![t] = get_initial_state(nextSession, u)]
  /\ req' = [req EXCEPT ![t] = Request(u, nextSession)]
  /\ loaded' = [loaded EXCEPT ![t] = None]
  /\ pc' = [pc EXCEPT ![t] = "resolved"]
  /\ nextRequest' = nextRequest + 1
  /\ nextSession' = nextSession + 1
  /\ UNCHANGED <<chat_messages, chat_states, langchain_pg_embedding, config,
                 path, llm_calls, response, nextDoc>>

\* Faulty chat(): the owner of a stored state is not checked and the state
\* goes on under the requester's id.
ChatLoadSession_TakesOver(t, u, session_id) ==
  /\ Free(t)
  /\ Validate(u) = OK
  /\ load(session_id) # None
  /\ state' = [state EXCEPT ![t] = [chat_states[session_id] EXCEPT !.user_id = u]]
  /\ req' = [req EXCEPT ![t] = Request(u, session_id)]
  /\ loaded' = [loaded EXCEPT ![t] = load(session_id)]
  /\ pc' = [pc EXCEPT ![t] = "resolved"]
  /\ nextRequest' = nextRequest + 1
  /\ UNCHANGED <<tables, config, path, llm_calls, response, nextSession, nextDoc>>

\* chat(), session_id given: the stored state is loaded and its owner checked.
ChatLoadSession(t, u, session_id) ==
  /\ Free(t)
  /\ Validate(u) = OK
  /\ CheckSession(u, session_id) = OK
  /\ state' = [state EXCEPT ![t] = chat_states[session_id]]
  /\ req' = [req EXCEPT ![t] = Request(u, session_id)]
  /\ loaded' = [loaded EXCEPT ![t] = load(session_id)]
  /\ pc' = [pc EXCEPT ![t] = "resolved"]
  /\ nextRequest' = nextRequest + 1
  /\ UNCHANGED <<tables, config, path, llm_calls, response, nextSession, nextDoc>>

\* chat(), "Save user message": the human row is committed, then the message
\* becomes the state's current_input.
SaveUserMessage(t) ==
  /\ At(t, "resolved")
  /\ chat_messages' = add_message(req[t].session_id, "human", req[t].message)
  /\ state' = [state EXCEPT ![t].current_input = req[t].message]
  /\ pc' = [pc EXCEPT ![t] = "filter"]
  /\ UNCHANGED <<chat_sessions, chat_states, langchain_pg_embedding, config, req,
                 path, llm_calls, loaded, response, nextRequest, nextSession, nextDoc>>

\* Faulty fatal path: the working state is saved before the error is answered.
Fatal_Saves(t, e) ==
  /\ pc' = [pc EXCEPT ![t] = "failed"]
  /\ response' = [response EXCEPT ![t] = OuterExcept(e)]
  /\ chat_states' = save(req[t].session_id, state[t])
  /\ UNCHANGED <<chat_sessions, chat_messages>>

\* The turn ends on the fatal path: process() and chat() roll back (nothing
\* is pending) and the outer handler answers 500.
Fatal(t, e) ==
  /\ pc' = [pc EXCEPT ![t] = "failed"]
  /\ response' = [response EXCEPT ![t] = OuterExcept(e)]
  /\ UNCHANGED <<chat_sessions, chat_messages, chat_states>>

\* Faulty purge: a DELETE without the WHERE clause.
PurgeAll(u) == {}

\* _filter_documents, the dimension-mismatch branch:
\* DELETE FROM langchain_pg_embedding WHERE cmetadata->>'user_id' = :user_id
PurgeUser(u) == langchain_pg_embedding \ ChunksOf(u)

\* Faulty _filter_documents: the row count is not looked at, the store is
\* opened and searched in every turn.
FilterDocuments_AlwaysSearches(t) ==
  /\ At(t, "filter")
  /\ \E docs \in SearchResults(state[t].user_id) :
       state' = [state EXCEPT ![t].current_context = Some(MapSeq(ContextEntry, docs))]
  /\ path' = [path EXCEPT ![t].retrieval = "retrieved"]
  /\ pc' = [pc EXCEPT ![t] = "answer"]
  /\ UNCHANGED <<tables, config, req, llm_calls, loaded, response,
                 nextRequest, nextSession, nextDoc>>

\* Faulty _filter_documents: without usable rows the context is left as the
\* session's state holds it.
FilterDocuments_KeepsContext(t) ==
  /\ At(t, "filter")
  /\ UNCHANGED <<tables, config, req, llm_calls, loaded, response,
                 nextRequest, nextSession, nextDoc>>
  /\ pc' = [pc EXCEPT ![t] = "answer"]
  /\ IF ChunksOf(state[t].user_id) = {} \/ DimensionMismatch(state[t].user_id)
       THEN /\ path' = [path EXCEPT ![t].retrieval = "nodocs"]
            /\ UNCHANGED state
       ELSE /\ path' = [path EXCEPT ![t].retrieval = "retrieved"]
            /\ \E docs \in SearchResults(state[t].user_id) :
                 state' = [state EXCEPT ![t].current_context =
                                           Some(MapSeq(ContextEntry, docs))]

\* ChatFlow._filter_documents
FilterDocuments(t) ==
  /\ At(t, "filter")
  /\ UNCHANGED <<config, req, llm_calls, loaded, nextRequest, nextSession, nextDoc>>
  /\ LET u == state[t].user_id IN
     \/ \* no chunks of this user: empty context, no search
        /\ ChunksOf(u) = {}
        /\ state' = [state EXCEPT ![t].current_context = Some(<<>>)]
        /\ path' = [path EXCEPT ![t].retrieval = "nodocs"]
        /\ pc' = [pc EXCEPT ![t] = "answer"]
        /\ UNCHANGED <<tables, response>>
     \/ \* get_vector_store raises
        /\ ChunksOf(u) # {}
        /\ ModelError(u) # OK
        /\ path' = [path EXCEPT ![t].retrieval = "error"]
        /\ Fatal(t, ModelError(u))
        /\ UNCHANGED <<langchain_pg_embedding, state>>
     \/ \* the search raises "different vector dimensions": the user's rows
        \* are deleted and the delete committed
        /\ ChunksOf(u) # {}
        /\ ModelError(u) = OK
        /\ DimensionMismatch(u)
        /\ langchain_pg_embedding' = PurgeUser(u)
        /\ state' = [state EXCEPT ![t].current_context = Some(<<>>),
                                  ![t].current_output = Some(ADVISORY)]
        /\ path' = [path EXCEPT ![t].retrieval = "mismatch"]
        /\ pc' = [pc EXCEPT ![t] = "answer"]
        /\ UNCHANGED <<chat_sessions, chat_messages, chat_states, response>>
     \/ \* the search returns documents
        /\ ChunksOf(u) # {}
        /\ ModelError(u) = OK
        /\ ~DimensionMismatch(u)
        /\ \E docs \in SearchResults(u) :
             state' = [state EXCEPT ![t].current_context =
                                       Some(MapSeq(ContextEntry, docs))]
        /\ path' = [path EXCEPT ![t].retrieval = "retrieved"]
        /\ pc' = [pc EXCEPT ![t] = "answer"]
        /\ UNCHANGED <<tables, response>>
     \/ \* any other failure of the count query, the embedding call or the search
        /\ path' = [path EXCEPT ![t].retrieval = "error"]
        /\ Fatal(t, HTTPException(500, "retrieval failed"))
        /\ UNCHANGED <<langchain_pg_embedding, state>>

\* Faulty "except Exception" branch: the turn goes back to retrieval.
Degrade_BackToRetrieval(t) ==
  /\ state' = [state EXCEPT ![t].current_output = Some(APOLOGY)]
  /\ pc' = [pc EXCEPT ![t] = "filter"]

\* Faulty "except Exception" branch: the failed turn is counted.
Degrade_Counts(t) ==
  /\ state' = [state EXCEPT ![t].current_output = Some(APOLOGY),
                            ![t].conversation_count = @ + 1]
  /\ pc' = [pc EXCEPT ![t] = "persist"]

\* Faulty "except Exception" branch: the failed turn enters the history.
Degrade_ExtendsHistory(t) ==
  /\ state' = [state EXCEPT
       ![t].current_output = Some(APOLOGY),
       ![t].internal_history = @ \o <<HumanEntry(state[t].current_input),
                                      AIEntry(APOLOGY)>>]
  /\ pc' = [pc EXCEPT ![t] = "persist"]

\* ChatFlow._answer_with_rag, the "except Exception" branch: rollback, the
\* apology becomes current_output, the state is returned.
Degrade(t) ==
  /\ state' = [state EXCEPT ![t].current_output = Some(APOLOGY)]
  /\ pc' = [pc EXCEPT ![t] = "persist"]

\* Faulty success branch: only the human message enters the history.
Answered_HumanOnly(t) ==
  /\ state' = [state EXCEPT
       ![t].current_output = Some(Ans(req[t].n)),
       ![t].conversation_count = @ + 1,
       ![t].internal_history = @ \o <<HumanEntry(state[t].current_input)>>]
  /\ pc' = [pc EXCEPT ![t] = "persist"]

\* Faulty success branch: conversation_count is not incremented.
Answered_NoCount(t) ==
  /\ state' = [state EXCEPT
       ![t].current_output = Some(Ans(req[t].n)),
       ![t].internal_history = @ \o <<HumanEntry(state[t].current_input),
                                      AIEntry(Ans(req[t].n))>>]
  /\ pc' = [pc EXCEPT ![t] = "persist"]

\* ChatFlow._answer_with_rag, the success branch after llm.ainvoke returned.
Answered(t) ==
  /\ state' = [state EXCEPT
       ![t].current_output = Some(Ans(req[t].n)),
       ![t].conversation_count = @ + 1,
       ![t].internal_history = @ \o <<HumanEntry(state[t].current_input),
                                      AIEntry(Ans(req[t].n))>>]
  /\ pc' = [pc EXCEPT ![t] = "persist"]

\* Faulty _answer_with_rag: a chat model that cannot be constructed aborts
\* the turn like a database error.
AnswerWithRag_AbortsOnModelError(t) ==
  /\ At(t, "answer")
  /\ UNCHANGED <<tables, config, req, loaded, nextRequest, nextSession, nextDoc>>
  /\ \/ /\ ModelError(state[t].user_id) # OK
        /\ path' = [path EXCEPT ![t].generation = "no_model"]
        /\ Fatal(t, ModelError(state[t].user_id))
        /\ UNCHANGED <<langchain_pg_embedding, state, llm_calls>>
     \/ /\ ModelError(state[t].user_id) = OK
        /\ llm_calls' = [llm_calls EXCEPT ![t] = @ + 1]
        /\ Answered(t)
        /\ path' = [path EXCEPT ![t].generation = "answered"]
        /\ UNCHANGED response

\* Faulty _answer_with_rag: a failed provider call is tried once more.
AnswerWithRag_Retries(t) ==
  /\ At(t, "answer")
  /\ UNCHANGED <<tables, config, req, loaded, nextRequest, nextSession, nextDoc>>
  /\ \/ /\ ModelError(state[t].user_id) # OK
        /\ Degrade(t)
        /\ path' = [path EXCEPT ![t].generation = "no_model"]
        /\ UNCHANGED <<llm_calls, response>>
     \/ /\ ModelError(state[t].user_id) = OK
        /\ \E calls \in {1, 2} : llm_calls' = [llm_calls EXCEPT ![t] = @ + calls]
        /\ Answered(t)
        /\ path' = [path EXCEPT ![t].generation = "answered"]
        /\ UNCHANGED response

\* ChatFlow._answer_with_rag, run by process() after _filter_documents
\* returned, whichever branch it returned from.  path keeps the retrieval
\* branch and gains the generation branch.
AnswerWithRag(t) ==
  /\ At(t, "answer")
  /\ UNCHANGED <<tables, config, req, loaded, nextRequest, nextSession, nextDoc>>
  /\ \/ \* preferences missing, or get_chat_model raises: no provider call
        /\ ModelError(state[t].user_id) # OK
        /\ Degrade(t)
        /\ path' = [path EXCEPT ![t].generation = "no_model"]
        /\ UNCHANGED <<llm_calls, response>>
     \/ \* llm.ainvoke returns
        /\ ModelError(state[t].user_id) = OK
        /\ llm_calls' = [llm_calls EXCEPT ![t] = @ + 1]
        /\ Answered(t)
        /\ path' = [path EXCEPT ![t].generation = "answered"]
        /\ UNCHANGED response
     \/ \* llm.ainvoke raises
        /\ ModelError(state[t].user_id) = OK
        /\ llm_calls' = [llm_calls EXCEPT ![t] = @ + 1]
        /\ Degrade(t)
        /\ path' = [path EXCEPT ![t].generation = "provider_error"]
        /\ UNCHANGED response
     \/ \* an SQLAlchemyError (rollback, the preferences query): re-raised
        /\ path' = [path EXCEPT ![t].generation = "db_error"]
        /\ Fatal(t, HTTPException(500, "database error"))
        /\ UNCHANGED <<langchain_pg_embedding, state, llm_calls>>

\* The ChatResponse chat() builds from the processed state.
ChatResponse(st) ==
  [kind |-> "ok",
   response |-> st.current_output,
   session_id |-> st.session_id,
   conversation_count |-> st.conversation_count,
   context |-> IF st.current_context = None THEN <<>> ELSE st.current_context[1]]

\* Faulty chat(): the response is returned without the state being saved.
Persist_SkipsSave(t) ==
  /\ At(t, "persist")
  /\ chat_messages' = add_message(req[t].session_id, "ai", state[t].current_output[1])
  /\ response' = [response EXCEPT ![t] = ChatResponse(state[t])]
  /\ pc' = [pc EXCEPT ![t] = "done"]
  /\ UNCHANGED <<chat_sessions, chat_states, langchain_pg_embedding, config, req,
                 state, path, llm_calls, loaded, nextRequest, nextSession, nextDoc>>

\* chat(), "Save AI response" and "Save state": the ai row is committed,
\* the state saved and committed, the ChatResponse returned.
Persist(t) ==
  /\ At(t, "persist")
  /\ chat_messages' = add_message(req[t].session_id, "ai", state[t].current_output[1])
  /\ chat_states' = save(req[t].session_id, state[t])
  /\ response' = [response EXCEPT ![t] = ChatResponse(state[t])]
  /\ pc' = [pc EXCEPT ![t] = "done"]
  /\ UNCHANGED <<chat_sessions, langchain_pg_embedding, config, req, state, path,
                 llm_calls, loaded, nextRequest, nextSession, nextDoc>>

\* The response has been sent; the handler's locals are gone.
Return(t) ==
  /\ Finished(t)
  /\ pc' = [pc EXCEPT ![t] = "idle"]
  /\ req' = [req EXCEPT ![t] = NoRequest]
  /\ state' = [state EXCEPT ![t] = NoState]
  /\ path' = [path EXCEPT ![t] = NoPath]
  /\ llm_calls' = [llm_calls EXCEPT ![t] = 0]
  /\ loaded' = [loaded EXCEPT ![t] = None]
  /\ response' = [response EXCEPT ![t] = NoResponse]
  /\ UNCHANGED <<tables, config, nextRequest, nextSession, nextDoc>>

\* ------------------------------------------------------- other endpoints

\* PUT /model-preferences (UserRepository.set_model_preferences)
SetModelPreferences(u, provider) ==
  /\ Ready
  /\ user_model_preferences[u] # provider
  /\ user_model_preferences' = [user_model_preferences EXCEPT ![u] = provider]
  /\ UNCHANGED <<user_api_keys, documents, factory, tables, pc, req, state, path,
                 llm_calls, loaded, response, nextRequest, nextSession, nextDoc>>

\* POST /upload (process_document): the document's chunks are embedded with
\* the user's current embedding function and added to the user's collection.
UploadDocument(u) ==
  /\ Ready
  /\ nextDoc <= MaxDocs
  /\ ModelError(u) = OK
  /\ langchain_pg_embedding' = langchain_pg_embedding \cup
       DocumentRows(u, nextDoc, user_model_preferences[u])
  /\ documents' = [d \in DOMAIN documents \cup {nextDoc} |->
                      IF d = nextDoc THEN u ELSE documents[d]]
  /\ nextDoc' = nextDoc + 1
  /\ UNCHANGED <<chat_sessions, chat_messages, chat_states, user_model_preferences,
                 user_api_keys, factory, pc, req, state, path, llm_calls, loaded,
                 response, nextRequest, nextSession>>

\* DELETE /documents/{document_id} (DocumentRepository.delete_document): the
\* rows of the document in document_chunks and in documents are deleted; the
\* requesting user is not looked at.
DeleteDocument(u, document_id) ==
  /\ Ready
  /\ document_id \in DOMAIN documents
  /\ documents' = [d \in DOMAIN documents \ {document_id} |-> documents[d]]
  /\ UNCHANGED <<tables, user_model_preferences, user_api_keys, factory, pc, req,
                 state, path, llm_calls, loaded, response, nextRequest, nextSession,
                 nextDoc>>

\* ------------------------------------------------------------------ Next

\* No handler is running: requests are handled one after another.
Idle == \A t \in Turns : pc[t] = "idle"

\* The service with its requests handled one at a time, while preferences
\* change and documents are uploaded at any moment.
Next ==
  \/ \E t \in Turns, u \in Users, s \in ClientSessionIds \cup {NoSession} :
       Idle /\ ChatReject(t, u, s)
  \/ \E t \in Turns, u \in Users :
       Idle /\ nextRequest <= MaxRequests /\ ChatNewSession(t, u)
  \/ \E t \in Turns, u \in Users, s \in ClientSessionIds :
       Idle /\ nextRequest <= MaxRequests /\ ChatLoadSession(t, u, s)
  \/ \E t \in Turns : SaveUserMessage(t)
  \/ \E t \in Turns : FilterDocuments(t)
  \/ \E t \in Turns : AnswerWithRag(t)
  \/ \E t \in Turns : Persist(t)
  \/ \E t \in Turns : Return(t)
  \/ \E u \in Users, p \in Providers : SetModelPreferences(u, p)
  \/ \E u \in Users : UploadDocument(u)

Spec == Init /\ [][Next]_vars

\* The same service with documents being deleted as well.
DocumentNext ==
  \/ Next
  \/ \E u \in Users, d \in DOMAIN documents : DeleteDocument(u, d)

DocumentSpec == Init /\ [][DocumentNext]_vars

\* The service with overlapping chat requests, once u1 too has chosen openai.
OverlapInit ==
  /\ user_model_preferences = [u \in Users |-> "openai"]
  /\ langchain_pg_embedding = DocumentRows("u2", 0, "openai")
  /\ documents = [d \in {0} |-> "u2"]
  /\ InitRest

OverlapNext ==
  \/ \E t \in Turns, u \in Users, s \in ClientSessionIds \cup {NoSession} :
       ChatReject(t, u, s)
  \/ \E t \in Turns, u \in Users :
       nextRequest <= MaxOverlapRequests /\ ChatNewSession(t, u)
  \/ \E t \in Turns, u \in Users, s \in ClientSessionIds :
       nextRequest <= MaxOverlapRequests /\ ChatLoadSession(t, u, s)
  \/ \E t \in Turns : SaveUserMessage(t)
  \/ \E t \in Turns : FilterDocuments(t)
  \/ \E t \in Turns : AnswerWithRag(t)
  \/ \E t \in Turns : Persist(t)
  \/ \E t \in Turns : Return(t)

OverlapSpec == OverlapInit /\ [][OverlapNext]_vars

\* The rows aadd_texts inserts for a document that splits into n chunks.
DocumentChunks(u, d, provider, n) ==
  {[collection |-> u,
    document |-> "chunk" \o ToString(d) \o "." \o ToString(i),
    cmetadata |-> [document_id |-> d, chunk_index |-> i, user_id |-> u],
    dim |-> EmbeddingDim(provider)] : i \in 0..(n - 1)}

\* The service after u2 uploaded a document that split into five chunks.
RetrievalInit ==
  /\ user_model_preferences = [u \in Users |-> IF u = "u2" THEN "openai" ELSE NoPrefs]
  /\ langchain_pg_embedding = DocumentChunks("u2", 0, "openai", 5)
  /\ documents = [d \in {0} |-> "u2"]
  /\ InitRest

RetrievalNext ==
  \/ \E t \in Turns, u \in Users, s \in ClientSessionIds \cup {NoSession} :
       Idle /\ ChatReject(t, u, s)
  \/ \E t \in Turns, u \in Users :
       Idle /\ nextRequest <= MaxRetrievalRequests /\ ChatNewSession(t, u)
  \/ \E t \in Turns, u \in Users, s \in ClientSessionIds :
       Idle /\ nextRequest <= MaxRetrievalRequests /\ ChatLoadSession(t, u, s)
  \/ \E t \in Turns : SaveUserMessage(t)
  \/ \E t \in Turns : FilterDocuments(t)
  \/ \E t \in Turns : AnswerWithRag(t)
  \/ \E t \in Turns : Persist(t)
  \/ \E t \in Turns : Return(t)

RetrievalSpec == RetrievalInit /\ [][RetrievalNext]_vars

\* ------------------------------------------------- the model constructors

\* A model name is a sequence of parts; "models/" is the namespace prefix.
NameParts == {"models/", "gemini-pro", "gpt-4"}
ModelNames == UNION {[1..n -> NameParts] : n \in 0..MaxNameLen}

\* model_name.startswith("models/")
StartsWithModels(model_name) == Len(model_name) > 0 /\ model_name[1] = "models/"

\* Faulty normalization: the prefix is added to every google name.
ChatModelName_AlwaysPrefixes(provider, chat_model) ==
  IF provider = "google" THEN <<"models/">> \o chat_model ELSE chat_model

\* get_chat_model: the model name the chat model is constructed with.
ChatModelName(provider, chat_model) ==
  IF provider = "google" /\ ~StartsWithModels(chat_model)
    THEN <<"models/">> \o chat_model
    ELSE chat_model

NoModel == [kind |-> "none", model |-> <<>>, error |-> ""]
Raised(error) == [kind |-> "error", model |-> <<>>, error |-> error]

\* Faulty get_chat_model: an unknown provider gets the openai client.
get_chat_model_DefaultsToOpenAI(provider, chat_model, has_key) ==
  IF ~has_key THEN Raised("No API key found for provider")
  ELSE IF provider = "google"
    THEN [kind |-> "ChatGoogleGenerativeAI",
          model |-> ChatModelName(provider, chat_model), error |-> ""]
  ELSE [kind |-> "ChatOpenAI", model |-> chat_model, error |-> ""]

\* llm.get_chat_model for a user whose preferences row exists: the API key is
\* looked up first, then the provider decides the client.
get_chat_model(provider, chat_model, has_key) ==
  IF ~has_key THEN Raised("No API key found for provider")
  ELSE IF provider = "openai"
    THEN [kind |-> "ChatOpenAI", model |-> chat_model, error |-> ""]
  ELSE IF provider = "google"
    THEN [kind |-> "ChatGoogleGenerativeAI",
          model |-> ChatModelName(provider, chat_model), error |-> ""]
  ELSE Raised("Unsupported provider")

\* vector_store.get_embedding_function, called with the key already found.
get_embedding_function(provider, embedding_model) ==
  IF provider = "openai"
    THEN [kind |-> "OpenAIEmbeddings", model |-> embedding_model, error |-> ""]
  ELSE IF provider = "google"
    THEN [kind |-> "GoogleGenerativeAIEmbeddings", model |-> embedding_model, error |-> ""]
  ELSE Raised("Unsupported provider for embeddings")

\* A user's preferences name any provider and any chat model; a key for the
\* provider is stored or not.
FactoryInit ==
  /\ user_model_preferences = [u \in Users |-> IF u = "u2" THEN "openai" ELSE NoPrefs]
  /\ langchain_pg_embedding = DocumentRows("u2", 0, "openai")
  /\ documents = [d \in {0} |-> "u2"]
  /\ user_api_keys = [u \in Users |-> IF u = "u1" THEN {"openai", "google"} ELSE {"openai"}]
  /\ chat_sessions = <<>>
  /\ chat_messages = <<>>
  /\ chat_states = <<>>
  /\ pc = [t \in Turns |-> "idle"]
  /\ req = [t \in Turns |-> NoRequest]
  /\ state = [t \in Turns |-> NoState]
  /\ path = [t \in Turns |-> NoPath]
  /\ llm_calls = [t \in Turns |-> 0]
  /\ loaded = [t \in Turns |-> None]
  /\ response = [t \in Turns |-> NoResponse]
  /\ nextRequest = 1
  /\ nextSession = 1
  /\ nextDoc = 1
  /\ factory \in [provider : Providers, chat_model : ModelNames, has_key : BOOLEAN,
                  llm : {NoModel}, embeddings : {NoModel}]

\* The turn's variables, which the constructors do not touch.
turn == <<tables, user_model_preferences, user_api_keys, documents, pc, req, state,
          path, llm_calls, loaded, response, nextRequest, nextSession, nextDoc>>

\* llm.get_chat_model is called with the preferences drawn.
GetChatModel ==
  /\ factory.llm = NoModel
  /\ factory' = [factory EXCEPT
       !.llm = get_chat_model(factory.provider, factory.chat_model, factory.has_key)]
  /\ UNCHANGED turn

\* get_vector_store after the key was found; the embedding model name ranges
\* over the same names as the chat model name.
GetEmbeddingFunction ==
  /\ factory.embeddings = NoModel
  /\ factory.has_key
  /\ factory' = [factory EXCEPT
       !.embeddings = get_embedding_function(factory.provider, factory.chat_model)]
  /\ UNCHANGED turn

FactoryNext == GetChatModel \/ GetEmbeddingFunction

FactorySpec == FactoryInit /\ [][FactoryNext]_vars

\* =============================================================== claims

\* The handler is working on (or has just finished) a turn on session s.
OnSession(t, s) == pc[t] # "idle" /\ path[t].retrieval # "rejected" /\ req[t].session_id = s

\* No handler is working on session s.
Quiet(s) == \A t \in Turns : ~OnSession(t, s)

\* The ai rows of the session that hold a provider reply: one per turn in
\* which generation succeeded.
AnsweredTurns(s) ==
  IF s \in DOMAIN chat_messages
    THEN Cardinality({i \in DOMAIN chat_messages[s] :
                        /\ chat_messages[s][i].role = "ai"
                        /\ chat_messages[s][i].content # APOLOGY})
    ELSE 0

\* The ai rows of the session that hold the apology: its degraded turns.
DegradedTurns(s) ==
  IF s \in DOMAIN chat_messages
    THEN Cardinality({i \in DOMAIN chat_messages[s] :
                        /\ chat_messages[s][i].role = "ai"
                        /\ chat_messages[s][i].content = APOLOGY})
    ELSE 0

\* Human entries at the odd positions, ai entries at the even ones.
Alternates(h) ==
  \A i \in 1..Len(h) :
    h[i].type = IF i % 2 = 1 THEN "HumanMessage" ELSE "AIMessage"

\* What the turn found stored when it began.
PriorHistory(t) == IF loaded[t] = None THEN <<>> ELSE loaded[t][1].internal_history
PriorCount(t) == IF loaded[t] = None THEN 0 ELSE loaded[t][1].conversation_count

\* The turn ended, or will end, on the fatal path.
FatalPath(t) == path[t].retrieval = "error" \/ path[t].generation = "db_error"

\* C1: with the turns of a session run one after another, once no turn is
\* running on it the stored state has 2N history entries alternating human,
\* ai and conversation_count N, N being the number of its turns in which
\* generation succeeded; a session with such a turn has a stored state.
C1_HistoryIntegrity ==
  \A s \in DOMAIN chat_sessions :
    Quiet(s) =>
      IF s \in DOMAIN chat_states
        THEN /\ Len(chat_states[s].internal_history) = 2 * AnsweredTurns(s)
             /\ Alternates(chat_states[s].internal_history)
             /\ chat_states[s].conversation_count = AnsweredTurns(s)
        ELSE AnsweredTurns(s) = 0

\* Two answered turns and a stored state that counts both.
C1_Witness ==
  \E s \in DOMAIN chat_states :
    /\ Quiet(s)
    /\ AnsweredTurns(s) = 2
    /\ chat_states[s].conversation_count = 2
    /\ Len(chat_states[s].internal_history) = 4

\* C2: the step that rejects a chat request (missing preferences, unknown
\* provider, missing API key, unknown session, session of another user)
\* writes to no table and returns an error, not a state or a reply.
C2_RejectWritesNothing ==
  [][\A t \in Turns :
       (pc[t] = "idle" /\ pc'[t] = "failed") =>
          /\ chat_states' = chat_states
          /\ chat_sessions' = chat_sessions
          /\ chat_messages' = chat_messages
          /\ langchain_pg_embedding' = langchain_pg_embedding
          /\ response'[t].kind = "error"]_vars

\* A request for another user's session has been rejected.
C2_Witness ==
  \E t \in Turns :
    /\ pc[t] = "failed"
    /\ path[t].retrieval = "rejected"
    /\ response[t].detail = "You don't have access to this chat session"
    /\ chat_states # <<>>

\* C3 (as claimed): turns on one session are serialized, so that once no
\* turn is running on a session without degraded turns, its stored state
\* counts every turn in which generation succeeded and holds its pair.
C3_TurnsSerialized ==
  \A s \in DOMAIN chat_states :
    (Quiet(s) /\ DegradedTurns(s) = 0) =>
      /\ chat_states[s].conversation_count = AnsweredTurns(s)
      /\ Len(chat_states[s].internal_history) = 2 * AnsweredTurns(s)

\* C4: a turn that failed on the fatal path (a retrieval failure other than
\* the dimension mismatch, a database error in generation) ends with an
\* error and leaves the session's chat_states record as the turn found it,
\* absent for a new session.
C4_FatalKeepsPriorState ==
  \A t \in Turns :
    (pc[t] = "failed" /\ FatalPath(t)) =>
       /\ load(req[t].session_id) = loaded[t]
       /\ response[t].kind = "error"

\* A turn on a session with a stored state failed in generation.
C4_Witness ==
  \E t \in Turns :
    /\ pc[t] = "failed"
    /\ path[t].generation = "db_error"
    /\ loaded[t] # None
    /\ load(req[t].session_id) = loaded[t]

\* The rows of the session in chat_messages.
MessagesOf(s) == IF s \in DOMAIN chat_messages THEN chat_messages[s] ELSE <<>>

\* The turn's human row is in chat_messages.
HumanRowStored(t) ==
  \E i \in DOMAIN MessagesOf(req[t].session_id) :
    MessagesOf(req[t].session_id)[i] = [role |-> "human", content |-> req[t].message]

\* The turn was accepted and the generation stage has not finished, or the
\* turn failed.
BeforeGenerationEnd(t) ==
  \/ pc[t] \in {"resolved", "filter", "answer"}
  \/ pc[t] = "failed" /\ path[t].retrieval # "rejected"

\* C5: nothing a turn writes to chat_sessions, chat_messages or
\* chat_states is committed before its generation stage has finished, and a
\* failed turn leaves none of its writes committed.
C5_NothingCommittedEarly ==
  \A t \in Turns :
    BeforeGenerationEnd(t) =>
      /\ load(req[t].session_id) = loaded[t]
      /\ ~HumanRowStored(t)
      /\ (loaded[t] = None => req[t].session_id \notin DOMAIN chat_sessions)

\* The provider call of the turn failed after retrieval had succeeded, and
\* the turn has returned.
ProviderFailedTurn(t) ==
  /\ pc[t] = "done"
  /\ path[t].retrieval \in {"nodocs", "retrieved"}
  /\ path[t].generation = "provider_error"

C7_DegradedTurnKeepsHistory ==
  \A t \in Turns :
    path[t].generation = "provider_error" =>
      /\ pc[t] \in {"persist", "done"}
      /\ state[t].internal_history = PriorHistory(t)
      /\ pc[t] = "done" =>
           /\ response[t].kind = "ok"
           /\ response[t].response = Some(APOLOGY)
           /\ load(req[t].session_id) # None
           /\ chat_states[req[t].session_id].internal_history = PriorHistory(t)

\* A degraded turn returned on a session whose history held a pair.
C7_Witness ==
  \E t \in Turns :
    /\ pc[t] = "done"
    /\ path[t].generation = "provider_error"
    /\ Len(PriorHistory(t)) = 2
    /\ chat_states[req[t].session_id].internal_history = PriorHistory(t)

\* C8 (as claimed): in a turn whose retrieval detected a dimension mismatch
\* the provider's chat model is never invoked.
C8_MismatchSkipsGeneration ==
  \A t \in Turns : path[t].retrieval = "mismatch" => llm_calls[t] = 0

\* C9 (as claimed): a turn whose retrieval detected a dimension mismatch
\* returns the advisory as its reply with an empty context, and the saved
\* current_output is the advisory.
C9_MismatchReturnsAdvisory ==
  \A t \in Turns :
    (pc[t] = "done" /\ path[t].retrieval = "mismatch") =>
      /\ response[t].kind = "ok"
      /\ response[t].response = Some(ADVISORY)
      /\ response[t].context = <<>>
      /\ chat_states[req[t].session_id].current_output = Some(ADVISORY)

\* C10: the step that detects a dimension mismatch leaves no row of the
\* requesting user in the vector index and leaves the rows of every other
\* user as they were.
C10_PurgeIsScoped ==
  [][\A t \in Turns :
       (path[t].retrieval # "mismatch" /\ path'[t].retrieval = "mismatch") =>
          /\ {r \in langchain_pg_embedding' : r.cmetadata.user_id = state[t].user_id} = {}
          /\ \A u \in Users \ {state[t].user_id} :
               {r \in langchain_pg_embedding' : r.cmetadata.user_id = u} = ChunksOf(u)]_vars

\* A mismatch was detected while another user had rows in the index.
C10_Witness ==
  \E t \in Turns :
    /\ path[t].retrieval = "mismatch"
    /\ pc[t] = "answer"
    /\ ChunksOf(state[t].user_id) = {}
    /\ \E u \in Users \ {state[t].user_id} : ChunksOf(u) # {}

\* C11: a retrieval step that finds no row of the requesting user takes the
\* branch that opens no vector store and runs no search; the context of such
\* a turn is the empty list, in its state and in its response.
C11_NoChunksNoSearch ==
  /\ [](\A t \in Turns :
          path[t].retrieval = "nodocs" =>
            /\ state[t].current_context = Some(<<>>)
            /\ pc[t] = "done" => response[t].context = <<>>)
  /\ [][\A t \in Turns :
          (pc[t] = "filter" /\ pc'[t] = "answer" /\ ChunksOf(state[t].user_id) = {}) =>
             path'[t].retrieval = "nodocs"]_vars

\* A turn of a user without rows returned a response with an empty context.
C11_Witness ==
  \E t \in Turns :
    /\ pc[t] = "done"
    /\ path[t].retrieval = "nodocs"
    /\ ChunksOf(req[t].user) = {}
    /\ response[t].kind = "ok"
    /\ response[t].context = <<>>

\* The status the failure kinds are said to map to, by the detail the
\* response carries.
ClaimedStatus(detail) ==
  IF detail \in {"Please configure your model preferences first", "Invalid provider",
                 "Please add your API key in settings before chatting"} THEN 400
  ELSE IF detail = "You don't have access to this chat session" THEN 403
  ELSE IF detail = "Chat session not found" THEN 404
  ELSE 500

\* C12: a request rejected for missing preferences, an invalid provider or a
\* missing API key is answered with 400, one for another user's session with
\* 403, one for an unknown session with 404, and only other failures with 500.
C12_StatusByFailureKind ==
  \A t \in Turns :
    pc[t] = "failed" =>
      /\ response[t].kind = "error"
      /\ response[t].status_code =
           IF path[t].retrieval = "rejected" THEN ClaimedStatus(response[t].detail) ELSE 500

\* Handler t created the session it works on.
CreatedSession(t) == InFlight(t) /\ loaded[t] = None

\* C13: a request without session_id gets a session id that no session,
\* message, state record or other handler's turn has, and starts from the
\* initial state of the requester (empty internal_history, count 0); two
\* handlers never work on a session both of them created.
C13_FreshSessionPerRequest ==
  /\ [][\A t \in Turns :
          (pc[t] = "idle" /\ pc'[t] = "resolved" /\ loaded'[t] = None) =>
             LET s == req'[t].session_id IN
               /\ s \notin DOMAIN chat_sessions
               /\ s \notin DOMAIN chat_messages
               /\ s \notin DOMAIN chat_states
               /\ \A t2 \in Turns \ {t} : InFlight(t2) => req[t2].session_id # s
               /\ chat_sessions'[s] = req'[t].user
               /\ state'[t] = get_initial_state(s, req'[t].user)
               /\ state'[t].internal_history = <<>>
               /\ state'[t].conversation_count = 0
               /\ state'[t].user_id = req'[t].user]_vars
  /\ [](\A t1, t2 \in Turns :
          (t1 # t2 /\ CreatedSession(t1) /\ CreatedSession(t2)) =>
             req[t1].session_id # req[t2].session_id)

\* Two requests without session_id are in flight at once, each on its own
\* session, while an older session exists.
C13_Witness ==
  /\ CreatedSession(1)
  /\ CreatedSession(2)
  /\ req[1].session_id # req[2].session_id
  /\ Cardinality(DOMAIN chat_sessions) = 3

\* C14: no committed save lowers the conversation_count stored for a session.
C14_CountNeverDecreases ==
  [][\A s \in DOMAIN chat_states :
       /\ s \in DOMAIN chat_states'
       /\ chat_states'[s].conversation_count >= chat_states[s].conversation_count]_vars

\* One step of handler t between accepting the request and answering it.
TurnStep(t) ==
  SaveUserMessage(t) \/ FilterDocuments(t) \/ AnswerWithRag(t) \/ Persist(t)

\* Spec with every store and provider call returning: a handler that can take
\* its next step takes it.
FairSpec == Spec /\ \A t \in Turns : WF_vars(TurnStep(t))

\* The moves of a handler from stage to stage: session resolved or created,
\* retrieval, generation, save, and the two ends.
StageOrder ==
  {<<"idle", "resolved">>, <<"idle", "failed">>,
   <<"resolved", "filter">>,
   <<"filter", "answer">>, <<"filter", "failed">>,
   <<"answer", "persist">>, <<"answer", "failed">>,
   <<"persist", "done">>,
   <<"done", "idle">>, <<"failed", "idle">>}

\* C15: a turn moves through resolve, retrieval, generation and save in this
\* order without going back to or repeating a stage; the state is saved only
\* by the step that ends the turn as persisted; and an accepted turn
\* eventually ends, persisted with a response or failed with an error.
C15_StagesInOrderAndTerminate ==
  /\ [][\A t \in Turns :
          /\ <<pc[t], pc'[t]>> \in StageOrder \/ UNCHANGED <<pc[t], state[t], path[t]>>
          /\ chat_states' # chat_states =>
               \E t2 \in Turns : pc[t2] = "persist" /\ pc'[t2] = "done"]_vars
  /\ [](\A t \in Turns :
          /\ pc[t] = "done" => response[t].kind = "ok" /\ load(req[t].session_id) = Some(state[t])
          /\ pc[t] = "failed" => response[t].kind = "error")
  /\ \A t \in Turns : InFlight(t) ~> Finished(t)

\* A turn went through retrieval with documents and generation and was saved.
C15_Witness ==
  \E t \in Turns :
    /\ pc[t] = "done"
    /\ path[t] = [retrieval |-> "retrieved", generation |-> "answered"]
    /\ response[t].kind = "ok"
    /\ load(req[t].session_id) = Some(state[t])

\* The fields of a state snapshot.
StateFields ==
  {"current_input", "internal_history", "current_output", "current_context",
   "session_id", "retriever_params", "conversation_count", "user_id"}

\* A state of the session has been saved: the ai row of a turn is committed
\* by the step that saves its state.
EverSaved(s) == \E i \in DOMAIN MessagesOf(s) : MessagesOf(s)[i].role = "ai"

OwnedBy(context, u) == \A i \in DOMAIN context : context[i].metadata.user_id = u

\* C17: every row is stored in the collection of the user its metadata
\* names; every chunk in a turn's context, in its state and in its response,
\* has the requester's id as metadata user_id; and a step that changes the
\* rows of one user leaves what a search of any other user can return as it
\* was.
C17_ContextOwnedByRequester ==
  /\ [](/\ \A r \in langchain_pg_embedding : r.collection = r.cmetadata.user_id
        /\ \A t \in Turns :
             /\ (pc[t] # "idle" /\ state[t].current_context # None) =>
                   OwnedBy(state[t].current_context[1], req[t].user)
             /\ pc[t] = "done" => OwnedBy(response[t].context, req[t].user))
  /\ [][\A u, v \in Users :
          (u # v /\ ChunksOf(v)' # ChunksOf(v)) => SearchResults(u)' = SearchResults(u)]_vars

\* A turn returned chunks of its user while another user had rows in the
\* index.
C17_Witness ==
  \E t \in Turns :
    /\ pc[t] = "done"
    /\ response[t].context # <<>>
    /\ OwnedBy(response[t].context, req[t].user)
    /\ \E v \in Users \ {req[t].user} : ChunksOf(v) # {}

\* C18: in every stored chat_states record, whatever turns ran and however
\* they overlapped, internal_history is a sequence of human/ai pairs and has
\* 2 * conversation_count entries.
C18_StoredHistoryIsPairs ==
  \A s \in DOMAIN chat_states :
    /\ Alternates(chat_states[s].internal_history)
    /\ Len(chat_states[s].internal_history) % 2 = 0
    /\ Len(chat_states[s].internal_history) = 2 * chat_states[s].conversation_count

\* Two overlapping answered turns left a record that counts one of them.
C18_Witness ==
  \E s \in DOMAIN chat_states :
    /\ Quiet(s)
    /\ AnsweredTurns(s) = 3
    /\ chat_states[s].conversation_count = 2
    /\ Len(chat_states[s].internal_history) = 4

\* C19: when a ChatResponse is returned, the chat_states record of the
\* returned session_id exists, belongs to the requester, and its
\* current_output and conversation_count are those of the response; the
\* requester's next request with this session_id passes the session checks.
C19_ResponseMatchesSavedState ==
  \A t \in Turns :
    (pc[t] = "done" /\ response[t].kind = "ok") =>
      /\ response[t].session_id = req[t].session_id
      /\ load(response[t].session_id) # None
      /\ chat_states[response[t].session_id].user_id = req[t].user
      /\ chat_states[response[t].session_id].current_output = response[t].response
      /\ chat_states[response[t].session_id].conversation_count =
           response[t].conversation_count
      /\ CheckSession(req[t].user, response[t].session_id) = OK

\* The first turn of a new session returned while another handler was
\* working.
C19_Witness ==
  \E t \in Turns :
    /\ pc[t] = "done"
    /\ loaded[t] = None
    /\ response[t].kind = "ok"
    /\ load(response[t].session_id) = Some(state[t])
    /\ \E t2 \in Turns \ {t} : InFlight(t2)

\* The number of rows of a role stored for a session.
RowsOf(s, role) ==
  Cardinality({i \in DOMAIN MessagesOf(s) : MessagesOf(s)[i].role = role})

\* C20: for a session no turn is working on, chat_messages holds as many ai
\* rows as human rows, and a chat_sessions row has a chat_states record.
C20_NoUnansweredMessage ==
  \A s \in DOMAIN chat_sessions :
    Quiet(s) =>
      /\ RowsOf(s, "human") = RowsOf(s, "ai")
      /\ load(s) # None

\* The generation stage of the turn ended in the "except Exception" branch.
DegradedPath(t) == path[t].generation \in {"no_model", "provider_error"}

\* C21: in the generation stage a database error aborts the turn, and any
\* other failure (preferences not found, no API key, unsupported provider, a
\* failing provider call) is degraded: the turn goes on to be saved with the
\* apology as output and with the count and the history it started with.
C21_AbortOrDegradeByKind ==
  /\ [](\A t \in Turns :
          /\ path[t].generation = "db_error" =>
               /\ pc[t] = "failed"
               /\ response[t].kind = "error"
               /\ load(req[t].session_id) = loaded[t]
          /\ DegradedPath(t) =>
               /\ pc[t] \in {"persist", "done"}
               /\ state[t].current_output = Some(APOLOGY)
               /\ state[t].conversation_count = PriorCount(t)
               /\ state[t].internal_history = PriorHistory(t)
               /\ pc[t] = "done" =>
                    /\ response[t].kind = "ok"
                    /\ response[t].response = Some(APOLOGY)
                    /\ response[t].conversation_count = PriorCount(t))
  /\ [][\A t \in Turns :
          (pc[t] = "answer" /\ pc'[t] # "answer") =>
             \/ pc'[t] = "failed" /\ path'[t].generation = "db_error"
             \/ /\ pc'[t] = "persist"
                /\ ModelError(state[t].user_id) # OK => path'[t].generation = "no_model"
                /\ path'[t].generation = "answered" => llm_calls'[t] = llm_calls[t] + 1]_vars

\* A turn on a session with one counted turn was degraded because the chat
\* model could not be constructed, and returned.
C21_Witness ==
  \E t \in Turns :
    /\ pc[t] = "done"
    /\ path[t].generation = "no_model"
    /\ PriorCount(t) = 1
    /\ response[t].response = Some(APOLOGY)
    /\ chat_states[req[t].session_id].conversation_count = 1

\* C22: a turn invokes the provider's chat model at most once; it has invoked
\* it exactly once when generation ended after a retrieval without mismatch
\* with the model constructed, not at all before generation or when the model
\* could not be constructed; a failed invocation is not repeated.
C22_OneProviderCallPerTurn ==
  \A t \in Turns :
    /\ llm_calls[t] <= 1
    /\ pc[t] \in {"idle", "resolved", "filter", "answer"} => llm_calls[t] = 0
    /\ path[t].generation \in {"no_model", "db_error"} => llm_calls[t] = 0
    /\ (/\ pc[t] \in {"persist", "done"}
        /\ path[t].retrieval \in {"nodocs", "retrieved"}
        /\ path[t].generation # "no_model") => llm_calls[t] = 1
    /\ path[t].generation = "provider_error" =>
         llm_calls[t] = 1 /\ state[t].current_output = Some(APOLOGY)

\* A turn whose single provider call failed returned without another call.
C22_Witness ==
  \E t \in Turns :
    /\ pc[t] = "done"
    /\ path[t] = [retrieval |-> "retrieved", generation |-> "provider_error"]
    /\ llm_calls[t] = 1

\* The stored or working context as a list: None reads as the empty list.
ContextList(st) == IF st.current_context = None THEN <<>> ELSE st.current_context[1]

\* C23: the retrieval step sets the context to the chunks its search
\* returned, in their order, or to the empty list on the no-documents and
\* mismatch branches, whatever context the session's state held before; the
\* later steps of the turn leave it alone; the saved current_context and the
\* context of the response are this list.
C23_ContextIsThisTurnsRetrieval ==
  /\ [][\A t \in Turns :
          /\ (pc[t] = "filter" /\ pc'[t] = "answer") =>
               IF path'[t].retrieval = "retrieved"
                 THEN \E docs \in SearchResults(state[t].user_id) :
                        state'[t].current_context = Some(MapSeq(ContextEntry, docs))
                 ELSE state'[t].current_context = Some(<<>>)
          /\ (pc[t] \in {"answer", "persist"} /\ pc'[t] \in {"persist", "done"}) =>
               state'[t].current_context = state[t].current_context]_vars
  /\ [](\A t \in Turns :
          pc[t] = "done" =>
            /\ state[t].current_context # None
            /\ chat_states[req[t].session_id].current_context = state[t].current_context
            /\ response[t].context = ContextList(state[t])
            /\ path[t].retrieval \in {"nodocs", "mismatch"} => response[t].context = <<>>)

\* A turn on a session whose stored context held chunks returned an empty
\* context.
C23_Witness ==
  \E t \in Turns :
    /\ pc[t] = "done"
    /\ loaded[t] # None
    /\ ContextList(loaded[t][1]) # <<>>
    /\ response[t].context = <<>>
    /\ ContextList(chat_states[req[t].session_id]) = <<>>

\* C24: the context retrieved for a turn never has more chunks than the k of
\* the retriever_params in the session's state.
C24_RetrievedWithinK ==
  \A t \in Turns :
    pc[t] # "idle" => Len(ContextList(state[t])) <= state[t].retriever_params.k

\* ------------------------------------------------------------ the prompt

\* Faulty _deserialize_message: every entry becomes an AIMessage.
deserialize_message_AlwaysAI(message_dict) ==
  [type |-> "AIMessage", content |-> message_dict.content]

\* ChatFlow._deserialize_message: a HumanMessage for type "HumanMessage", an
\* AIMessage for any other type.
deserialize_message(message_dict) ==
  IF message_dict.type = "HumanMessage"
    THEN [type |-> "HumanMessage", content |-> message_dict.content]
    ELSE [type |-> "AIMessage", content |-> message_dict.content]

\* "\n\n".join(texts)
RECURSIVE JoinBlank(_)
JoinBlank(texts) ==
  IF texts = <<>> THEN ""
  ELSE IF Len(texts) = 1 THEN texts[1]
  ELSE texts[1] \o "\n\n" \o JoinBlank(Tail(texts))

PREAMBLE == "I am a helpful AI assistant that provides accurate answers based on the given context."

INSTRUCTION == "\n\nPlease answer the question based on the provided context. If the answer cannot be found in the context, say so. Include relevant quotes from the context to support your answer."

\* The f-string prompt of _answer_with_rag.
Prompt(st) ==
  "Context: "
  \o JoinBlank([i \in 1..Len(ContextList(st)) |-> ContextList(st)[i].page_content])
  \o "\n\nQuestion: " \o st.current_input
  \o INSTRUCTION

\* The messages _answer_with_rag passes to llm.ainvoke for state st.
Messages(st) ==
  <<[type |-> "AIMessage", content |-> PREAMBLE]>>
  \o [i \in 1..Len(st.internal_history) |-> deserialize_message(st.internal_history[i])]
  \o <<[type |-> "HumanMessage", content |-> Prompt(st)]>>

\* The context block and the question, as the last message is said to hold
\* them.
ContextBlockAndQuestion(chunks, question) ==
  "Context: " \o JoinBlank(chunks) \o "\n\nQuestion: " \o question

\* C25: for the state a turn brings to the generation stage, the messages for
\* the provider are the preamble, then the entries of internal_history in
\* stored order with their roles and contents, then one HumanMessage that
\* holds the context block (chunk texts joined by blank lines, in
\* context order) and the question; there are Len(internal_history) + 2 of
\* them and no message before the last is the current question.
C25_PromptLayout ==
  \A t \in Turns :
    pc[t] = "answer" =>
      LET st == state[t]
          m == Messages(st)
          n == Len(st.internal_history)
      IN /\ Len(m) = n + 2
         /\ m[1].content = PREAMBLE
         /\ \A i \in 1..n :
              /\ m[i + 1].type = st.internal_history[i].type
              /\ m[i + 1].content = st.internal_history[i].content
         /\ m[n + 2].type = "HumanMessage"
         /\ m[n + 2].content =
              ContextBlockAndQuestion(
                [i \in 1..Len(ContextList(st)) |-> ContextList(st)[i].page_content],
                st.current_input) \o INSTRUCTION
         /\ \A i \in 1..(n + 1) : m[i].content # st.current_input

\* A turn reached generation with one pair in its history and a chunk in its
\* context.
C25_Witness ==
  \E t \in Turns :
    /\ pc[t] = "answer"
    /\ Len(state[t].internal_history) = 2
    /\ Len(ContextList(state[t])) = 1
    /\ Len(Messages(state[t])) = 4
    /\ Messages(state[t])[2].type = "HumanMessage"

\* C26: the chat model for provider google is constructed with the name
\* itself when it starts with "models/" and with "models/" put in front of it
\* otherwise, so normalizing the constructed name again changes nothing; the
\* chat model for provider openai is constructed with the name as given.
C26_ChatModelNameNormalized ==
  LET name == factory.chat_model
      passed == factory.llm.model
  IN /\ factory.llm.kind = "ChatGoogleGenerativeAI" =>
          /\ factory.provider = "google"
          /\ passed = IF StartsWithModels(name) THEN name ELSE <<"models/">> \o name
          /\ StartsWithModels(passed)
          /\ ChatModelName("google", passed) = passed
          /\ ChatModelName("google", ChatModelName("google", name)) =
               ChatModelName("google", name)
     /\ factory.llm.kind = "ChatOpenAI" =>
          /\ factory.provider = "openai"
          /\ passed = name
          /\ ChatModelName("openai", name) = name

\* A google chat model was constructed from a name that had the prefix, and
\* the name was passed as it was.
C26_Witness ==
  /\ factory.llm.kind = "ChatGoogleGenerativeAI"
  /\ factory.chat_model = <<"models/", "gemini-pro">>
  /\ factory.llm.model = <<"models/", "gemini-pro">>

ListedCount(s) == Len(MessagesOf(s))

\* C28: the conversation_count a turn's response carries is the number the
\* sessions listing reports for that session, the number of its stored
\* chat_messages rows.
C28_CountIsNumberOfMessages ==
  \A t \in Turns :
    (pc[t] = "done" /\ response[t].kind = "ok") =>
      response[t].conversation_count = ListedCount(response[t].session_id)

\* C29: every stored chat_states record carries its own key as session_id and
\* the user who created the session as user_id, and no step changes either.
C29_SessionIdentityFixed ==
  /\ [](\A s \in DOMAIN chat_states :
          /\ chat_states[s].session_id = s
          /\ s \in DOMAIN chat_sessions
          /\ chat_states[s].user_id = chat_sessions[s])
  /\ [][\A s \in DOMAIN chat_states :
          /\ s \in DOMAIN chat_states'
          /\ chat_states'[s].session_id = chat_states[s].session_id
          /\ chat_states'[s].user_id = chat_states[s].user_id
          /\ chat_sessions'[s] = chat_sessions[s]]_vars

\* Sessions of two different users have records, one of them saved by a
\* second turn.
C29_Witness ==
  \E s1, s2 \in DOMAIN chat_states :
    /\ chat_states[s1].user_id = "u1"
    /\ chat_states[s2].user_id = "u2"
    /\ chat_states[s2].conversation_count = 2
    /\ chat_sessions[s1] = "u1"
    /\ chat_sessions[s2] = "u2"

\* C30: no row of the vector index belongs to a document that is no longer
\* in the documents table, and no retrieval step puts a chunk of such a
\* document into a turn's context.
C30_DeletedDocumentLeavesIndex ==
  /\ [](\A r \in langchain_pg_embedding : r.cmetadata.document_id \in DOMAIN documents)
  /\ [][\A t \in Turns :
          (pc[t] = "filter" /\ pc'[t] = "answer") =>
             \A i \in DOMAIN ContextList(state'[t]) :
               ContextList(state'[t])[i].metadata.document_id \in DOMAIN documents]_vars

====
